---- MODULE Spec2Model ----
(***************************************************************************)
(* BasePlot (src/src/Base/plot.ts): the lifecycle of one plot instance,    *)
(* construct -> _init -> _afterInit (auto padding) -> updateConfig ->      *)
(* destroy, with the configuration assembly and the layout computed by     *)
(* _init.                                                                  *)
(*                                                                         *)
(* Lengths are integers in tenths of a pixel, so that the 0.1 of           *)
(* _getViewMargin is 1.  An optional JavaScript value is a record with a   *)
(* `present` (or `kind`) field; "undefined" stands for an absent leaf.     *)
(* The code is single-threaded and synchronous: a public method runs from  *)
(* pc = "idle" to its return, one statement group per step, and no other   *)
(* method starts in between.  A step is enabled only at its own pc.        *)
(***************************************************************************)
EXTENDS Integers, Sequences, FiniteSets, TLC

VARIABLES
    pc,             \* position of the running method; "idle" between calls
    op,             \* the public method that is running or ran last
    depth,          \* updateConfig frames on the stack (the nested call of _afterInit included)
    passes,         \* _init passes started by the running call
    arg,            \* the partial the caller handed to the last external updateConfig
    cfg,            \* cfg of the innermost updateConfig frame
    newProps,       \* local newProps of updateConfig
    _initialProps,  \* this._initialProps, the working configuration
    _originalProps, \* this._originalProps, the snapshot taken by the constructor
    _config,        \* this._config, the rendering configuration
    theme,          \* this.themeController.theme
    canvas,         \* this.canvasController and its canvas
    plot,           \* this.plot, the drawable view
    title,          \* this.title
    description,    \* this.description
    eventHandlers,  \* this.eventHandlers
    handlers,       \* handlers bound on the view this.plot refers to
    leaked,         \* handlers still bound on views this.plot no longer refers to
    nViews,         \* views created and not yet destroyed
    nTitles,        \* title chromes created and not yet destroyed
    nDescs,         \* description chromes created and not yet destroyed
    destroyed,      \* this.destroyed
    misuse,         \* collaborators that were used after their disposal
    outcome,        \* "running", or how the last call ended: "ok" or "TypeError"
    trace,          \* the collaborator calls of the running (or last) call, in order
    concreteSet,    \* some external updateConfig carried a concrete padding
    firstPadding,   \* the padding the first _init pass of the running call resolved
    measured,       \* the padding _afterInit measured last
    nUpdates,       \* external updateConfig calls so far
    paddingComponents, \* this.paddingComponents, filled by resgiterPadding
    container       \* the size of the container element

vars == <<pc, op, depth, passes, arg, cfg, newProps, _initialProps, _originalProps,
          _config, theme, canvas, plot, title, description, eventHandlers,
          handlers, leaked, nViews, nTitles, nDescs, destroyed, misuse, outcome,
          trace, concreteSet, firstPadding, measured, nUpdates,
          paddingComponents, container>>

----------------------------------------------------------------------------
(* Bounds *)

MaxUpdates == 2
MaxComponents == 1

----------------------------------------------------------------------------
(* Values *)

Eps == 1

SetMin(S) == CHOOSE m \in S : \A n \in S : m <= n
SetMax(S) == CHOOSE m \in S : \A n \in S : m >= n
Max(a, b) == IF a >= b THEN a ELSE b

Empty == [k \in {} |-> "undefined"]

Neutral == <<0, 0, 0, 0>>
NoPad == [kind |-> "none", v |-> Neutral]
NullPad == [kind |-> "null", v |-> Neutral]
AutoPad == [kind |-> "auto", v |-> Neutral]
Tuple(v) == [kind |-> "tuple", v |-> v]

(* props.padding as a condition: undefined and null are falsy, "auto" and  *)
(* an array are truthy.                                                    *)
Truthy(padding) == padding.kind \in {"auto", "tuple"}

NoText == [present |-> FALSE, text |-> "undefined", styled |-> FALSE]
Text(t, s) == [present |-> TRUE, text |-> t, styled |-> s]
NoTip == [present |-> FALSE, visible |-> "undefined", styled |-> FALSE, shared |-> "undefined"]
Tip(vis, s) == [present |-> TRUE, visible |-> vis, styled |-> s, shared |-> "undefined"]
NoLegend == [present |-> FALSE, visible |-> "undefined", position |-> "undefined"]
Legend(vis, pos) == [present |-> TRUE, visible |-> vis, position |-> pos]

(* A partial configuration: op is "omit" (key absent), "null" or "merge". *)
OmitText == [op |-> "omit", text |-> "undefined", styled |-> FALSE]
NullText == [op |-> "null", text |-> "undefined", styled |-> FALSE]
SetText(t, s) == [op |-> "merge", text |-> t, styled |-> s]
OmitTip == [op |-> "omit", visible |-> "undefined", styled |-> FALSE, shared |-> "undefined"]
SetTip(vis, s) == [op |-> "merge", visible |-> vis, styled |-> s, shared |-> "undefined"]
OmitLegend == [op |-> "omit", visible |-> "undefined", position |-> "undefined"]
SetLegend(vis, pos) == [op |-> "merge", visible |-> vis, position |-> pos]

NoCfg == [padding |-> NoPad, title |-> OmitText, description |-> OmitText,
          tooltip |-> OmitTip, legend |-> OmitLegend, events |-> <<>>,
          data |-> "undefined"]

(* meta: field -> scale keys -> value.  variantScales: what the _scale    *)
(* hook of the concrete chart writes into the scales section, taken from   *)
(* the variant's own options.                                              *)
BaseProps == [padding |-> NoPad, title |-> NoText, description |-> NoText,
              tooltip |-> NoTip, legend |-> NoLegend, events |-> <<>>,
              data |-> "d1", meta |-> Empty, variantScales |-> Empty]

BBox(x, y, width, height) ==
    [minX |-> x, minY |-> y, maxX |-> x + width, maxY |-> y + height,
     width |-> width, height |-> height]

NullChrome == [set |-> FALSE, live |-> FALSE, leftMargin |-> 0, topMargin |-> 0,
               wrapperWidth |-> 0, text |-> "undefined", styled |-> FALSE]

NoPlot == [exists |-> FALSE, live |-> FALSE, padding |-> Neutral, startY |-> 0,
           endY |-> 0, width |-> 0, options |-> Empty, provisional |-> FALSE,
           drawn |-> FALSE, data |-> "undefined"]

False == [disabled |-> TRUE, v |-> Empty]
Section(v) == [disabled |-> FALSE, v |-> v]

----------------------------------------------------------------------------
(* Collaborators *)

(* The measured height of a text block. *)
TextHeight(t) == CASE t = "short" -> 20 [] t = "long" -> 280 [] OTHER -> 0

(* TextDescription.getBBox: the block starts at its margins. *)
GetBBox(c) == BBox(c.leftMargin, c.topMargin, c.wrapperWidth, TextHeight(c.text))

(* The footprint of the legend of a view. *)
LegendExtent(options) == IF options.legends.disabled THEN 0 ELSE 60

(* getAutoPadding(view, components, defaultPadding): per side, the        *)
(* envelope of what the view measured and of the registered components,    *)
(* never below the floor.                                                  *)
getAutoPadding(p, components, floor) ==
    LET top == IF components = <<>> THEN 0
               ELSE SetMax({components[i].maxY : i \in DOMAIN components})
    IN  <<Max(floor[1], top), floor[2], Max(floor[3], LegendExtent(p.options)), floor[4]>>

(* The public event name of a declared handler: EVENT_MAP[e.name] || k. *)
EventName(k) == k

(* The declared handlers, in the order _.each visits them: the order of   *)
(* the keys of props.events.                                               *)
RECURSIVE HandlerSeq(_, _)
HandlerSeq(events, i) ==
    IF i > Len(events) THEN <<>>
    ELSE <<[type |-> EventName(events[i]), handler |-> events[i]]>>
         \o HandlerSeq(events, i + 1)

Range(s) == {s[i] : i \in DOMAIN s}

----------------------------------------------------------------------------
(* @antv/util *)

(* _.get(obj, key): the value under the key, undefined when there is none. *)
Get(obj, key) == IF key \in DOMAIN obj THEN obj[key] ELSE "undefined"

(* _.assign whose source values are all objects, none undefined. *)
AssignObjects(dist, src) ==
    [k \in (DOMAIN dist) \cup (DOMAIN src) |-> IF k \in DOMAIN src THEN src[k] ELSE dist[k]]

(* _.assign / _.mix: the defined keys of src overwrite those of dist. *)
Assign(dist, src) ==
    LET defined == {k \in DOMAIN src : src[k] # "undefined"}
    IN  [k \in (DOMAIN dist) \cup defined |-> IF k \in defined THEN src[k] ELSE dist[k]]

DeepMixText(old, p) ==
    CASE p.op = "omit" -> old
      [] p.op = "null" -> NoText
      [] OTHER -> [present |-> TRUE,
                   text |-> IF p.text # "undefined" THEN p.text ELSE old.text,
                   styled |-> old.styled \/ p.styled]

DeepMixTip(old, p) ==
    CASE p.op = "omit" -> old
      [] p.op = "null" -> NoTip
      [] OTHER -> [present |-> TRUE,
                   visible |-> IF p.visible # "undefined" THEN p.visible ELSE old.visible,
                   styled |-> old.styled \/ p.styled,
                   shared |-> IF p.shared # "undefined" THEN p.shared ELSE old.shared]

DeepMixLegend(old, p) ==
    CASE p.op = "omit" -> old
      [] p.op = "null" -> NoLegend
      [] OTHER -> [present |-> TRUE,
                   visible |-> IF p.visible # "undefined" THEN p.visible ELSE old.visible,
                   position |-> IF p.position # "undefined" THEN p.position ELSE old.position]

(* The keys of a merged object: those of old in their order, then the new *)
(* keys of p in theirs.                                                    *)
MergeKeys(old, p) == old \o SelectSeq(p, LAMBDA k : k \notin Range(old))

(* An object copied by deepMix: a key whose value is undefined is dropped. *)
Defined(obj) == [k \in {k \in DOMAIN obj : obj[k] # "undefined"} |-> obj[k]]
DeepMixMeta(meta) == [field \in DOMAIN meta |-> Defined(meta[field])]

(* _.deepMix({}, props, c): plain objects merge key by key, any other      *)
(* defined value (an array, a string, null) replaces the old one.          *)
DeepMix(props, c) ==
    [padding |-> IF c.padding.kind # "none" THEN c.padding ELSE props.padding,
     title |-> DeepMixText(props.title, c.title),
     description |-> DeepMixText(props.description, c.description),
     tooltip |-> DeepMixTip(props.tooltip, c.tooltip),
     legend |-> DeepMixLegend(props.legend, c.legend),
     events |-> MergeKeys(props.events, c.events),
     data |-> IF c.data # "undefined" THEN c.data ELSE props.data,
     meta |-> DeepMixMeta(props.meta),
     variantScales |-> props.variantScales]

----------------------------------------------------------------------------
(* BasePlot: configuration assembly and layout *)

(* _setConfig: push an element, replace a section by false, or assign the  *)
(* defined keys into the section.  Assigning a defined key into a section  *)
(* that already is false throws a TypeError.                               *)
_setConfig(conf, key, value) ==
    IF key = "element" THEN [conf EXCEPT !.elements = Append(@, value)]
    ELSE IF value.disabled THEN [conf EXCEPT ![key] = False]
    ELSE IF conf[key].disabled
         THEN LET defined == IF key = "scales" THEN DOMAIN value.v
                             ELSE {k \in DOMAIN value.v : value.v[k] # "undefined"}
              IN  IF defined = {} THEN conf ELSE "TypeError"
    ELSE IF key = "scales" THEN [conf EXCEPT ![key] = Section(AssignObjects(@.v, value.v))]
    ELSE [conf EXCEPT ![key] = Section(Assign(@.v, value.v))]

(* A _getPadding that substitutes the theme's floor for "auto". *)
_getPaddingFloor(props, th) ==
    LET padding == IF Truthy(props.padding) THEN props.padding ELSE th.padding
    IN  IF padding.kind = "auto" THEN th.defaultPadding ELSE padding.v

_getPadding(props, th) ==
    LET padding == IF Truthy(props.padding) THEN props.padding ELSE th.padding
    IN  IF padding.kind = "auto" THEN Neutral ELSE padding.v

(* A _getPanelRange that reads right and left from each other's index. *)
_getPanelRangeSwapped(props, th, cv) ==
    LET padding == _getPadding(props, th)
        width == cv.width
        height == cv.height
        top == padding[1]
        right == padding[4]
        bottom == padding[3]
        left == padding[2]
    IN  BBox(left, top, width - left - right, height - top - bottom)

_getPanelRange(props, th, cv) ==
    LET padding == _getPadding(props, th)
        width == cv.width
        height == cv.height
        top == padding[1]
        right == padding[2]
        bottom == padding[3]
        left == padding[4]
    IN  BBox(left, top, width - left - right, height - top - bottom)

(* A _getViewMargin without the clamp of lines 380-382. *)
_getViewMarginUnclamped(t, d, th, cv) ==
    LET boxes == (IF t.set THEN {GetBBox(t)} ELSE {})
                 \cup (IF d.set THEN {GetBBox(d)} ELSE {})
    IN  IF boxes = {} THEN [minX |-> 0, maxX |-> 0, minY |-> 0, maxY |-> 0]
        ELSE [minX |-> SetMin({b.minX : b \in boxes}),
              maxX |-> SetMax({b.maxX : b \in boxes}),
              minY |-> SetMin({b.minY : b \in boxes}),
              maxY |-> SetMax({b.maxY : b \in boxes})
                       + (IF d.set THEN th.descBottom ELSE 0)]

_getViewMargin(t, d, th, cv) ==
    LET boxes == (IF t.set THEN {GetBBox(t)} ELSE {})
                 \cup (IF d.set THEN {GetBBox(d)} ELSE {})
    IN  IF boxes = {} THEN [minX |-> 0, maxX |-> 0, minY |-> 0, maxY |-> 0]
        ELSE LET minX == SetMin({b.minX : b \in boxes})
                 maxX == SetMax({b.maxX : b \in boxes})
                 minY == SetMin({b.minY : b \in boxes})
                 maxY == SetMax({b.maxY : b \in boxes})
                        + (IF d.set THEN th.descBottom ELSE 0)
             IN  [minX |-> minX, maxX |-> maxX, minY |-> minY,
                  maxY |-> IF maxY >= cv.height THEN cv.height - Eps ELSE maxY]

(* The structural defaults _init starts from. *)
DefaultConfig(th) ==
    [scales |-> Section(Empty),
     legends |-> Section([position |-> th.defaultLegendPosition]),
     tooltip |-> Section([showTitle |-> "true", triggerOn |-> "mousemove",
                          inPanel |-> "true", useHtml |-> "true"]),
     elements |-> <<>>,
     panelRange |-> BBox(0, 0, 0, 0)]

(* A _tooltip without the return of line 158. *)
_tooltipNoReturn(conf, th, props) ==
    [config |-> _setConfig(_setConfig(conf, "tooltip",
                                      Section([crosshairs |-> "undefined"])),
                           "tooltip", Section([shared |-> props.tooltip.shared])),
     theme |-> IF props.tooltip.present /\ props.tooltip.styled
               THEN [th EXCEPT !.tooltipStyled = TRUE] ELSE th]

(* _tooltip: the new rendering configuration and the theme it leaves. *)
_tooltip(conf, th, props) ==
    IF props.tooltip.present /\ props.tooltip.visible = "false"
    THEN [config |-> _setConfig(conf, "tooltip", False), theme |-> th]
    ELSE [config |-> _setConfig(_setConfig(conf, "tooltip",
                                           Section([crosshairs |-> "undefined"])),
                                "tooltip", Section([shared |-> props.tooltip.shared])),
          theme |-> IF props.tooltip.present /\ props.tooltip.styled
                    THEN [th EXCEPT !.tooltipStyled = TRUE] ELSE th]

_legend(conf, props) ==
    IF props.legend.present /\ props.legend.visible = "false"
    THEN _setConfig(conf, "legends", False)
    ELSE _setConfig(_setConfig(conf, "legends",
                               Section([position |-> props.legend.position])),
                    "legends", Section([formatter |-> "undefined", offsetX |-> "undefined",
                                        offsetY |-> "undefined", flipPage |-> "undefined"]))

(* A _title without the this.title = null of line 199. *)
_titleKeepsSlot(props, th, panelRange) ==
    IF props.title.present
    THEN LET th2 == [th EXCEPT !.titleStyled = @ \/ props.title.styled]
         IN  [chrome |-> [set |-> TRUE, live |-> TRUE, leftMargin |-> panelRange.minX,
                          topMargin |-> th.titleTop, wrapperWidth |-> panelRange.width,
                          text |-> props.title.text, styled |-> th2.titleStyled],
              theme |-> th2]
    ELSE [chrome |-> title, theme |-> th]

(* _title: the chrome it creates (NullChrome when the configuration has no *)
(* title) and the theme: _.mix(theme.title, props.title.style) writes the  *)
(* user's style into theme.title.                                          *)
_title(props, th, panelRange) ==
    IF props.title.present
    THEN LET th2 == [th EXCEPT !.titleStyled = @ \/ props.title.styled]
         IN  [chrome |-> [set |-> TRUE, live |-> TRUE, leftMargin |-> panelRange.minX,
                          topMargin |-> th.titleTop, wrapperWidth |-> panelRange.width,
                          text |-> props.title.text, styled |-> th2.titleStyled],
              theme |-> th2]
    ELSE [chrome |-> NullChrome, theme |-> th]

(* _description: it reads props.title.alignWithAxis, which throws when the *)
(* configuration has a description and no title.                           *)
_description(props, th, panelRange, t) ==
    IF ~props.description.present
    THEN [threw |-> FALSE, chrome |-> NullChrome, theme |-> th]
    ELSE LET topMargin == IF t.set THEN GetBBox(t).minY + GetBBox(t).height ELSE 0
             th2 == [th EXCEPT !.descStyled = @ \/ props.description.styled]
         IN  IF ~props.title.present
             THEN [threw |-> TRUE, chrome |-> NullChrome, theme |-> th]
             ELSE [threw |-> FALSE,
                   chrome |-> [set |-> TRUE, live |-> TRUE,
                               leftMargin |-> panelRange.minX,
                               topMargin |-> topMargin + th.descTop,
                               wrapperWidth |-> panelRange.width,
                               text |-> props.description.text,
                               styled |-> th2.descStyled],
                   theme |-> th2]

(* The _scale hook of the concrete chart: it writes the variant's scales   *)
(* into the scales section.                                                *)
_scale(conf, props) == _setConfig(conf, "scales", Section(props.variantScales))

(* A meta merge in which the hook's keys win over the keys of meta. *)
MergeMetaUnder(conf, props) ==
    LET scales == [field \in DOMAIN conf.scales.v |->
                      IF field \in DOMAIN props.meta
                      THEN Assign(Assign(Empty, props.meta[field]), conf.scales.v[field])
                      ELSE conf.scales.v[field]]
    IN  _setConfig(conf, "scales", Section(scales))

(* lines 100-108: every scale entry whose field has a meta entry becomes   *)
(* _.assign({}, scaleConfig, meta), and the result is assigned into the    *)
(* scales section.                                                         *)
MergeMeta(conf, props) ==
    LET scales == [field \in DOMAIN conf.scales.v |->
                      IF field \in DOMAIN props.meta
                      THEN Assign(Assign(Empty, conf.scales.v[field]), props.meta[field])
                      ELSE conf.scales.v[field]]
    IN  _setConfig(conf, "scales", Section(scales))

(* Lines 89-108 of _init: the hooks of the chart variant (of which _scale  *)
(* writes into the scales section), _tooltip, _legend and the meta merge.  *)
Assemble(conf, th, props) ==
    LET tt == _tooltip(_scale(conf, props), th, props)
    IN  [config |-> MergeMeta(_legend(tt.config, props), props), theme |-> tt.theme]

(* lines 110-121: new G2.View({...}). *)
NewView(props, th, cv, conf, margin) ==
    [exists |-> TRUE, live |-> TRUE, padding |-> _getPadding(props, th),
     startY |-> margin.maxY, endY |-> cv.height, width |-> cv.width,
     options |-> conf, provisional |-> FALSE, drawn |-> FALSE,
     data |-> props.data]

(* The padding _afterInit and _getPadding resolve. *)
ResolvedPadding(props, th) ==
    IF Truthy(props.padding) THEN props.padding ELSE th.padding

(* One _init pass as a function of the working configuration, the theme   *)
(* and the canvas (for a configuration _description does not throw on).    *)
InitPass(props, th, cv) ==
    LET range == _getPanelRange(props, th, cv)
        t == _title(props, th, range)
        d == _description(props, t.theme, range, t.chrome)
        margin == _getViewMargin(t.chrome, d.chrome, d.theme, cv)
        a == Assemble([DefaultConfig(th) EXCEPT !.panelRange = range], d.theme, props)
    IN  [config |-> a.config, theme |-> a.theme, title |-> t.chrome,
         description |-> d.chrome,
         plot |-> NewView(props, a.theme, cv, a.config, margin)]

(* The constructor as a function: _init, and with padding "auto" the       *)
(* measurement and the second _init of _afterInit.                         *)
Construct(props, th, cv, components) ==
    LET first == InitPass(props, th, cv)
    IN  IF ResolvedPadding(props, th).kind = "auto"
        THEN LET padding == getAutoPadding(first.plot, components, th.defaultPadding)
             IN  InitPass(DeepMix(props, [NoCfg EXCEPT !.padding = Tuple(padding)]),
                          first.theme, cv)
        ELSE first

----------------------------------------------------------------------------
(* Inputs *)

CanvasWidths == {400}
CanvasHeights == {300}

Themes ==
    {[padding |-> pad, defaultPadding |-> <<20, 20, 20, 20>>, titleTop |-> 20,
      descTop |-> 10, descBottom |-> 10, defaultLegendPosition |-> "bottom-center",
      titleStyled |-> FALSE, descStyled |-> FALSE, tooltipStyled |-> FALSE]
     : pad \in {AutoPad, Tuple(<<20, 20, 40, 40>>)}}

(* The configurations handed to the constructor. *)
InitConfigs ==
    {BaseProps,
     [BaseProps EXCEPT !.padding = AutoPad, !.events = <<"click">>],
     [BaseProps EXCEPT !.padding = Tuple(<<10, 20, 30, 40>>), !.title = Text("short", FALSE)],
     [BaseProps EXCEPT !.padding = AutoPad, !.title = Text("long", TRUE),
                       !.description = Text("short", FALSE)],
     [BaseProps EXCEPT !.description = Text("short", FALSE)],
     [BaseProps EXCEPT !.padding = AutoPad, !.tooltip = Tip("false", TRUE),
                       !.legend = Legend("false", "undefined")],
     [BaseProps EXCEPT !.tooltip = Tip("undefined", TRUE),
                       !.events = <<"dblclick", "click">>,
                       !.legend = Legend("undefined", "top-center"), !.data = "empty"]}

(* The partial configurations handed to updateConfig. *)
Partials ==
    {NoCfg,
     [NoCfg EXCEPT !.padding = Tuple(<<50, 60, 70, 80>>)],
     [NoCfg EXCEPT !.padding = AutoPad],
     [NoCfg EXCEPT !.padding = NullPad],
     [NoCfg EXCEPT !.title = SetText("short", TRUE)],
     [NoCfg EXCEPT !.title = NullText],
     [NoCfg EXCEPT !.description = SetText("long", FALSE)],
     [NoCfg EXCEPT !.tooltip = SetTip("false", FALSE)],
     [NoCfg EXCEPT !.legend = SetLegend("false", "undefined")],
     [NoCfg EXCEPT !.events = <<"dblclick">>, !.data = "d2"]}

DataSets == {"d2"}

(* The components handed to resgiterPadding: a box that reaches y = 500. *)
Components == {BBox(0, 0, 100, 500)}

(* The sizes the container element takes. *)
ContainerSizes == {[width |-> 400, height |-> 300], [width |-> 200, height |-> 100]}

LayoutWidths == {0, 400}
LayoutHeights == {0, 100, 300, 3000}
LayoutTexts == {NoText, Text("short", FALSE), Text("long", TRUE)}
LayoutPaddings == {NoPad, NullPad, AutoPad, Tuple(<<0, 0, 0, 0>>), Tuple(<<10, 20, 30, 40>>),
                   Tuple(<<150, 200, 150, 200>>)}
LayoutConfigs ==
    {[BaseProps EXCEPT !.padding = p, !.title = t, !.description = d] :
        p \in LayoutPaddings, t \in LayoutTexts, d \in LayoutTexts}

(* Scales and meta: two fields, two scale keys. *)
Fields == {"x", "y"}
ScaleKeys == {"alias", "min"}

(* The entries a _scale hook writes: defined values under some keys. *)
HookEntries == UNION {[K -> {"h"}] : K \in SUBSET ScaleKeys}
(* The entries of meta: a key may be present with the value undefined. *)
MetaEntries == UNION {[K -> {"m", "undefined"}] : K \in SUBSET ScaleKeys}

VariantScales == UNION {[F -> HookEntries] : F \in SUBSET Fields}
Metas == UNION {[F -> MetaEntries] : F \in SUBSET Fields}

ScaleConfigs ==
    {[BaseProps EXCEPT !.meta = m, !.variantScales = v] : m \in Metas, v \in VariantScales}

--------------------------------------------------------------------------------
(* Collaborator calls *)

(* onEvent(plot, eventName, handler): binds the handler on the view and    *)
(* records the pair for the later unbinding.                               *)
onEvent(st, rec) ==
    [eventHandlers |-> Append(st.eventHandlers, rec),
     handlers |-> st.handlers \cup {rec}]

RECURSIVE BindAll(_, _, _)
BindAll(st, recs, i) ==
    IF i > Len(recs) THEN st ELSE BindAll(onEvent(st, recs[i]), recs, i + 1)

(* _events: every declared handler that is a function goes through onEvent. *)
_events(props, evs, hs) ==
    BindAll([eventHandlers |-> evs, handlers |-> hs], HandlerSeq(props.events, 1), 1)

(* A teardown that leaves the recorded handlers bound. *)
UnbindNothing(hs, evs) == hs

(* this.plot.off(handler.type, handler.handler) for each recorded handler. *)
Unbind(hs, evs) == hs \ Range(evs)

(* An updateConfig that forces "auto" back whatever the partial carries. *)
ForcePaddingAlways(c, orig) ==
    IF orig.padding.kind = "auto" THEN [c EXCEPT !.padding = AutoPad] ELSE c

(* An updateConfig that never forces the padding back. *)
ForcePaddingNever(c, orig) == c

(* lines 319-321 of updateConfig: a padding that is omitted (or null) is   *)
(* forced back to "auto" when the original snapshot asked for "auto".      *)
ForcePadding(c, orig) ==
    IF ~Truthy(c.padding) /\ orig.padding.kind = "auto"
    THEN [c EXCEPT !.padding = AutoPad] ELSE c

Used(res, ok) == IF ok THEN misuse ELSE misuse \cup {res}

----------------------------------------------------------------------------
(* The state after lines 30-48 of the constructor: the fields hold their   *)
(* initialisers, the configuration is stored and copied, the canvas and    *)
(* the theme are provisioned, and _init is about to run.                   *)
InitWith(configs, themes, widths, heights) ==
    /\ pc = "init"
    /\ op = "construct"
    /\ depth = 0
    /\ passes = 0
    /\ arg = NoCfg
    /\ cfg = NoCfg
    /\ newProps = BaseProps
    /\ _initialProps \in configs
    /\ _originalProps = DeepMix(_initialProps, NoCfg)
    /\ _config = DefaultConfig(CHOOSE th \in Themes : TRUE)
    /\ theme \in themes
    /\ \E w \in widths, h \in heights :
          canvas = [width |-> w, height |-> h, live |-> TRUE, attached |-> TRUE]
    /\ plot = NoPlot
    /\ title = NullChrome
    /\ description = NullChrome
    /\ eventHandlers = <<>>
    /\ handlers = {}
    /\ leaked = {}
    /\ nViews = 0
    /\ nTitles = 0
    /\ nDescs = 0
    /\ destroyed = FALSE
    /\ misuse = {}
    /\ outcome = "running"
    /\ trace = <<>>
    /\ concreteSet = FALSE
    /\ firstPadding = "none"
    /\ measured = Neutral
    /\ nUpdates = 0
    /\ paddingComponents = <<>>
    /\ container = [width |-> canvas.width, height |-> canvas.height]

Init == InitWith(InitConfigs, Themes, CanvasWidths, CanvasHeights)

(* The constructor alone, over a wider range of canvas sizes, paddings and *)
(* chrome.                                                                 *)
InitLayout == InitWith(LayoutConfigs, Themes, LayoutWidths, LayoutHeights)

InitScales == InitWith(ScaleConfigs, Themes, CanvasWidths, CanvasHeights)

----------------------------------------------------------------------------
(* _init *)

(* lines 54-82: the structural defaults and the panel range. *)
InitConfig ==
    /\ pc = "init"
    /\ _config' = [DefaultConfig(theme) EXCEPT
                      !.panelRange = _getPanelRange(_initialProps, theme, canvas)]
    /\ passes' = passes + 1
    /\ firstPadding' = IF passes = 0 THEN ResolvedPadding(_initialProps, theme).kind
                       ELSE firstPadding
    /\ pc' = "title"
    /\ UNCHANGED <<paddingComponents, container, op, depth, arg, cfg, newProps, _initialProps, _originalProps,
                   theme, canvas, plot, title, description, eventHandlers,
                   handlers, leaked, nViews, nTitles, nDescs, destroyed, misuse,
                   outcome, trace, concreteSet, measured, nUpdates>>

(* line 84: this._title(range). *)
InitTitle ==
    /\ pc = "title"
    /\ LET r == _title(_initialProps, theme, _config.panelRange)
       IN  /\ title' = r.chrome
           /\ theme' = r.theme
           /\ nTitles' = IF r.chrome.set THEN nTitles + 1 ELSE nTitles
           /\ misuse' = Used("canvas", ~r.chrome.set \/ canvas.live)
           /\ trace' = IF r.chrome.set THEN Append(trace, "title.new") ELSE trace
    /\ pc' = "description"
    /\ UNCHANGED <<paddingComponents, container, op, depth, passes, arg, cfg, newProps, _initialProps,
                   _originalProps, _config, canvas, plot, description,
                   eventHandlers, handlers, leaked, nViews, nDescs, destroyed,
                   outcome, concreteSet, firstPadding, measured, nUpdates>>

(* line 85: this._description(range); a TypeError ends the running call    *)
(* (and leaves no instance when the call is the constructor).              *)
InitDescription ==
    /\ pc = "description"
    /\ LET r == _description(_initialProps, theme, _config.panelRange, title)
       IN  /\ description' = r.chrome
           /\ theme' = r.theme
           /\ nDescs' = IF r.chrome.set THEN nDescs + 1 ELSE nDescs
           /\ misuse' = Used("canvas", ~r.chrome.set \/ canvas.live)
           /\ trace' = IF r.chrome.set THEN Append(trace, "description.new") ELSE trace
           /\ pc' = IF ~r.threw THEN "view"
                    ELSE IF op = "construct" THEN "failed" ELSE "idle"
           /\ outcome' = IF r.threw THEN "TypeError" ELSE outcome
           /\ depth' = IF r.threw THEN 0 ELSE depth
           /\ cfg' = IF r.threw THEN NoCfg ELSE cfg
           /\ newProps' = IF r.threw THEN BaseProps ELSE newProps
    /\ UNCHANGED <<paddingComponents, container, op, passes, arg, _initialProps, _originalProps,
                   _config, canvas, plot, title, eventHandlers, handlers, leaked,
                   nViews, nTitles, destroyed, concreteSet, firstPadding, measured, nUpdates>>

(* lines 87-121: the view margin, the assembly, and new G2.View. *)
InitView ==
    /\ pc = "view"
    /\ LET margin == _getViewMargin(title, description, theme, canvas)
           a == Assemble(_config, theme, _initialProps)
       IN  /\ _config' = a.config
           /\ theme' = a.theme
           /\ plot' = NewView(_initialProps, a.theme, canvas, a.config, margin)
    /\ nViews' = nViews + 1
    /\ leaked' = leaked \cup handlers
    /\ handlers' = {}
    /\ misuse' = Used("canvas", canvas.live)
    /\ trace' = Append(trace, "view.new")
    /\ pc' = "events"
    /\ UNCHANGED <<paddingComponents, container, op, depth, passes, arg, cfg, newProps, _initialProps,
                   _originalProps, canvas, title, description, eventHandlers,
                   nTitles, nDescs, destroyed, outcome, concreteSet, firstPadding, measured, nUpdates>>

(* lines 122-123: this._interactions() (abstract) and this._events(). *)
InitEvents ==
    /\ pc = "events"
    /\ LET r == _events(_initialProps, eventHandlers, handlers)
       IN  /\ eventHandlers' = r.eventHandlers
           /\ handlers' = r.handlers
           /\ trace' = IF r.handlers # handlers THEN Append(trace, "on") ELSE trace
    /\ pc' = "afterInit"
    /\ UNCHANGED <<paddingComponents, container, op, depth, passes, arg, cfg, newProps, _initialProps,
                   _originalProps, _config, theme, canvas, plot, title,
                   description, leaked, nViews, nTitles, nDescs, destroyed,
                   misuse, outcome, concreteSet, firstPadding, measured, nUpdates>>

----------------------------------------------------------------------------
(* _afterInit *)

(* An _afterInit that returns without the auto-padding pass. *)
AfterInitReturns ==
    /\ pc = "afterInit"
    /\ pc' = "idle"
    /\ outcome' = "ok"
    /\ depth' = 0
    /\ cfg' = NoCfg
    /\ newProps' = BaseProps
    /\ UNCHANGED <<paddingComponents, container, op, passes, arg, _initialProps, _originalProps,
                   _config, theme, canvas, plot, title, description, eventHandlers,
                   handlers, leaked, nViews, nTitles, nDescs, destroyed, misuse,
                   trace, concreteSet, firstPadding, measured, nUpdates>>

(* lines 249-253: with padding "auto" the measurement-only render, and    *)
(* otherwise the return of the running call.                               *)
AfterInit ==
    /\ pc = "afterInit"
    /\ IF ResolvedPadding(_initialProps, theme).kind = "auto"
       THEN /\ plot' = [plot EXCEPT !.provisional = TRUE]
            /\ trace' = Append(trace, "render(false)")
            /\ pc' = "measure"
            /\ UNCHANGED <<outcome, depth, cfg, newProps>>
       ELSE /\ pc' = "idle"
            /\ outcome' = "ok"
            /\ depth' = 0
            /\ cfg' = NoCfg
            /\ newProps' = BaseProps
            /\ UNCHANGED <<plot, trace>>
    /\ UNCHANGED <<paddingComponents, container, op, passes, arg, _initialProps, _originalProps,
                   _config, theme, canvas, title, description, eventHandlers,
                   handlers, leaked, nViews, nTitles, nDescs, destroyed, misuse,
                   concreteSet, firstPadding, measured, nUpdates>>

(* lines 254-257: the measurement, and the nested updateConfig({padding}). *)
AfterInitMeasure ==
    /\ pc = "measure"
    /\ measured' = getAutoPadding(plot, paddingComponents, theme.defaultPadding)
    /\ cfg' = [NoCfg EXCEPT !.padding = Tuple(measured')]
    /\ depth' = depth + 1
    /\ trace' = Append(trace, "measure")
    /\ pc' = "u_merge"
    /\ UNCHANGED <<paddingComponents, container, op, passes, arg, newProps, _initialProps, _originalProps,
                   _config, theme, canvas, plot, title, description,
                   eventHandlers, handlers, leaked, nViews, nTitles, nDescs,
                   destroyed, misuse, outcome, concreteSet, firstPadding,
                   nUpdates>>

----------------------------------------------------------------------------
(* updateConfig *)

(* The caller invokes updateConfig(c). *)
UpdateConfig ==
    /\ pc = "idle"
    /\ nUpdates < MaxUpdates
    /\ \E c \in Partials :
          /\ arg' = c
          /\ cfg' = c
          /\ concreteSet' = (concreteSet \/ c.padding.kind = "tuple")
    /\ op' = "updateConfig"
    /\ depth' = 1
    /\ passes' = 0
    /\ trace' = <<>>
    /\ outcome' = "running"
    /\ nUpdates' = nUpdates + 1
    /\ pc' = "u_merge"
    /\ UNCHANGED <<paddingComponents, container, newProps, _initialProps, _originalProps, _config, theme,
                   canvas, plot, title, description, eventHandlers, handlers,
                   leaked, nViews, nTitles, nDescs, destroyed, misuse,
                   firstPadding, measured>>

(* lines 319-322. *)
UMerge ==
    /\ pc = "u_merge"
    /\ cfg' = ForcePadding(cfg, _originalProps)
    /\ newProps' = DeepMix(_initialProps, cfg')
    /\ pc' = "u_unbind"
    /\ UNCHANGED <<paddingComponents, container, op, depth, passes, arg, _initialProps, _originalProps, _config,
                   theme, canvas, plot, title, description, eventHandlers,
                   handlers, leaked, nViews, nTitles, nDescs, destroyed, misuse,
                   outcome, trace, concreteSet, firstPadding, measured, nUpdates>>

(* lines 324-326. *)
UUnbind ==
    /\ pc = "u_unbind"
    /\ handlers' = Unbind(handlers, eventHandlers)
    /\ misuse' = Used("view", eventHandlers = <<>> \/ plot.live)
    /\ trace' = IF eventHandlers # <<>> THEN Append(trace, "off") ELSE trace
    /\ pc' = "u_view"
    /\ UNCHANGED <<paddingComponents, container, op, depth, passes, arg, cfg, newProps, _initialProps,
                   _originalProps, _config, theme, canvas, plot, title,
                   description, eventHandlers, leaked, nViews, nTitles, nDescs,
                   destroyed, outcome, concreteSet, firstPadding, measured, nUpdates>>

(* An updateConfig that does not destroy the previous view. *)
UDestroyViewSkipped ==
    /\ pc = "u_view"
    /\ pc' = "u_chrome"
    /\ UNCHANGED <<paddingComponents, container, op, depth, passes, arg, cfg, newProps, _initialProps,
                   _originalProps, _config, theme, canvas, plot, title,
                   description, eventHandlers, handlers, leaked, nViews, nTitles,
                   nDescs, destroyed, misuse, outcome, trace, concreteSet,
                   firstPadding, measured, nUpdates>>

(* line 327: this.plot.destroy(). *)
UDestroyView ==
    /\ pc = "u_view"
    /\ plot' = [plot EXCEPT !.live = FALSE]
    /\ nViews' = IF plot.live THEN nViews - 1 ELSE nViews
    /\ misuse' = Used("view", plot.live)
    /\ trace' = Append(trace, "plot.destroy")
    /\ pc' = "u_chrome"
    /\ UNCHANGED <<paddingComponents, container, op, depth, passes, arg, cfg, newProps, _initialProps,
                   _originalProps, _config, theme, canvas, title, description,
                   eventHandlers, handlers, leaked, nTitles, nDescs, destroyed,
                   outcome, concreteSet, firstPadding, measured, nUpdates>>

(* lines 329-330: the title and the description are destroyed if set. *)
UDestroyChrome ==
    /\ pc = "u_chrome"
    /\ title' = IF title.set THEN [title EXCEPT !.live = FALSE] ELSE title
    /\ description' = IF description.set THEN [description EXCEPT !.live = FALSE]
                      ELSE description
    /\ nTitles' = IF title.set /\ title.live THEN nTitles - 1 ELSE nTitles
    /\ nDescs' = IF description.set /\ description.live THEN nDescs - 1 ELSE nDescs
    /\ misuse' = (misuse \cup (IF title.set /\ ~title.live THEN {"title"} ELSE {}))
                 \cup (IF description.set /\ ~description.live THEN {"description"} ELSE {})
    /\ trace' = (trace \o (IF title.set THEN <<"title.destory">> ELSE <<>>))
                \o (IF description.set THEN <<"description.destory">> ELSE <<>>)
    /\ pc' = "u_install"
    /\ UNCHANGED <<paddingComponents, container, op, depth, passes, arg, cfg, newProps, _initialProps,
                   _originalProps, _config, theme, canvas, plot, eventHandlers,
                   handlers, leaked, nViews, destroyed, outcome, concreteSet, firstPadding, measured,
                   nUpdates>>

(* lines 331-333: the merged configuration becomes the working one, the    *)
(* canvas controller takes the size the container has now, and the         *)
(* _beforeInit hook does nothing.                                          *)
UInstall ==
    /\ pc = "u_install"
    /\ _initialProps' = newProps
    /\ canvas' = [canvas EXCEPT !.width = container.width, !.height = container.height]
    /\ misuse' = Used("canvasController", canvas.live)
    /\ pc' = "init"
    /\ UNCHANGED <<paddingComponents, container, op, depth, passes, arg, cfg, newProps,
                   _originalProps, _config, theme, plot, title, description,
                   eventHandlers, handlers, leaked, nViews, nTitles, nDescs, destroyed,
                   outcome, trace, concreteSet, firstPadding, measured, nUpdates>>

----------------------------------------------------------------------------
(* destroy *)

(* The caller invokes destroy(); line 303: this.canvasController.destory(). *)
Destroy ==
    /\ pc = "idle"
    /\ op' = "destroy"
    /\ passes' = 0
    /\ outcome' = "running"
    /\ canvas' = [canvas EXCEPT !.live = FALSE]
    /\ misuse' = Used("canvasController", canvas.live)
    /\ trace' = <<"canvasController.destory">>
    /\ pc' = "d_unbind"
    /\ UNCHANGED <<paddingComponents, container, depth, arg, cfg, newProps, _initialProps, _originalProps,
                   _config, theme, plot, title, description, eventHandlers,
                   handlers, leaked, nViews, nTitles, nDescs, destroyed,
                   concreteSet, firstPadding, measured, nUpdates>>

(* lines 304-306. *)
DUnbind ==
    /\ pc = "d_unbind"
    /\ handlers' = Unbind(handlers, eventHandlers)
    /\ misuse' = Used("view", eventHandlers = <<>> \/ plot.live)
    /\ trace' = IF eventHandlers # <<>> THEN Append(trace, "off") ELSE trace
    /\ pc' = "d_chrome"
    /\ UNCHANGED <<paddingComponents, container, op, depth, passes, arg, cfg, newProps, _initialProps,
                   _originalProps, _config, theme, canvas, plot, title,
                   description, eventHandlers, leaked, nViews, nTitles, nDescs,
                   destroyed, outcome, concreteSet, firstPadding, measured, nUpdates>>

(* lines 308-309. *)
DChrome ==
    /\ pc = "d_chrome"
    /\ title' = IF title.set THEN [title EXCEPT !.live = FALSE] ELSE title
    /\ description' = IF description.set THEN [description EXCEPT !.live = FALSE]
                      ELSE description
    /\ nTitles' = IF title.set /\ title.live THEN nTitles - 1 ELSE nTitles
    /\ nDescs' = IF description.set /\ description.live THEN nDescs - 1 ELSE nDescs
    /\ misuse' = (misuse \cup (IF title.set /\ ~title.live THEN {"title"} ELSE {}))
                 \cup (IF description.set /\ ~description.live THEN {"description"} ELSE {})
    /\ trace' = (trace \o (IF title.set THEN <<"title.destory">> ELSE <<>>))
                \o (IF description.set THEN <<"description.destory">> ELSE <<>>)
    /\ pc' = "d_detach"
    /\ UNCHANGED <<paddingComponents, container, op, depth, passes, arg, cfg, newProps, _initialProps,
                   _originalProps, _config, theme, canvas, plot, eventHandlers,
                   handlers, leaked, nViews, destroyed, outcome, concreteSet, firstPadding, measured,
                   nUpdates>>

(* lines 310-311: canvasDOM.parentNode.removeChild(canvasDOM); a detached  *)
(* node has no parentNode, and the call throws a TypeError.                *)
DDetach ==
    /\ pc = "d_detach"
    /\ IF canvas.attached
       THEN /\ canvas' = [canvas EXCEPT !.attached = FALSE]
            /\ trace' = Append(trace, "removeChild")
            /\ pc' = "d_view"
            /\ UNCHANGED <<misuse, outcome>>
       ELSE /\ misuse' = misuse \cup {"canvasDOM"}
            /\ outcome' = "TypeError"
            /\ pc' = "idle"
            /\ UNCHANGED <<canvas, trace>>
    /\ UNCHANGED <<paddingComponents, container, op, depth, passes, arg, cfg, newProps, _initialProps,
                   _originalProps, _config, theme, plot, title, description,
                   eventHandlers, handlers, leaked, nViews, nTitles, nDescs,
                   destroyed, concreteSet, firstPadding, measured, nUpdates>>

(* line 313: this.plot.destroy(). *)
DView ==
    /\ pc = "d_view"
    /\ plot' = [plot EXCEPT !.live = FALSE]
    /\ nViews' = IF plot.live THEN nViews - 1 ELSE nViews
    /\ misuse' = Used("view", plot.live)
    /\ trace' = Append(trace, "plot.destroy")
    /\ pc' = "d_flag"
    /\ UNCHANGED <<paddingComponents, container, op, depth, passes, arg, cfg, newProps, _initialProps,
                   _originalProps, _config, theme, canvas, title, description,
                   eventHandlers, handlers, leaked, nTitles, nDescs, destroyed,
                   outcome, concreteSet, firstPadding, measured, nUpdates>>

(* line 314: this.destroyed = true, and destroy returns. *)
DFlag ==
    /\ pc = "d_flag"
    /\ destroyed' = TRUE
    /\ outcome' = "ok"
    /\ pc' = "idle"
    /\ UNCHANGED <<paddingComponents, container, op, depth, passes, arg, cfg, newProps, _initialProps,
                   _originalProps, _config, theme, canvas, plot, title,
                   description, eventHandlers, handlers, leaked, nViews, nTitles,
                   nDescs, misuse, trace, concreteSet, firstPadding, measured, nUpdates>>

----------------------------------------------------------------------------
(* render, changeData, repaint *)

(* A render that draws whatever the working data is. *)
RenderAlways ==
    /\ pc = "idle"
    /\ op' = "render"
    /\ outcome' = "ok"
    /\ passes' = 0
    /\ plot' = IF plot.live THEN [plot EXCEPT !.drawn = TRUE] ELSE plot
    /\ misuse' = Used("view", plot.live)
    /\ trace' = <<"plot.render">>
    /\ UNCHANGED <<paddingComponents, container, pc, depth, arg, cfg, newProps, _initialProps, _originalProps,
                   _config, theme, canvas, title, description, eventHandlers,
                   handlers, leaked, nViews, nTitles, nDescs, destroyed,
                   concreteSet, firstPadding, measured, nUpdates>>

(* lines 289-294: a full draw pass when the working data is not empty. *)
Render ==
    /\ pc = "idle"
    /\ op' = "render"
    /\ outcome' = "ok"
    /\ passes' = 0
    /\ IF _initialProps.data \notin {"empty", "undefined"}
       THEN /\ plot' = IF plot.live THEN [plot EXCEPT !.drawn = TRUE] ELSE plot
            /\ misuse' = Used("view", plot.live)
            /\ trace' = <<"plot.render">>
       ELSE /\ trace' = <<>>
            /\ UNCHANGED <<plot, misuse>>
    /\ UNCHANGED <<paddingComponents, container, pc, depth, arg, cfg, newProps, _initialProps, _originalProps,
                   _config, theme, canvas, title, description, eventHandlers,
                   handlers, leaked, nViews, nTitles, nDescs, destroyed,
                   concreteSet, firstPadding, measured, nUpdates>>

(* lines 284-286: this.plot.changeData(data). *)
ChangeData ==
    /\ pc = "idle"
    /\ op' = "changeData"
    /\ outcome' = "ok"
    /\ passes' = 0
    /\ \E d \in DataSets :
          plot' = IF plot.live THEN [plot EXCEPT !.data = d] ELSE plot
    /\ misuse' = Used("view", plot.live)
    /\ trace' = <<"plot.changeData">>
    /\ UNCHANGED <<paddingComponents, container, pc, depth, arg, cfg, newProps, _initialProps, _originalProps,
                   _config, theme, canvas, title, description, eventHandlers,
                   handlers, leaked, nViews, nTitles, nDescs, destroyed,
                   concreteSet, firstPadding, measured, nUpdates>>

(* lines 297-299: this.plot.get('canvas').draw(). *)
Repaint ==
    /\ pc = "idle"
    /\ op' = "repaint"
    /\ outcome' = "ok"
    /\ passes' = 0
    /\ misuse' = Used("view", plot.live)
    /\ trace' = <<"canvas.draw">>
    /\ UNCHANGED <<paddingComponents, container, pc, depth, arg, cfg, newProps,
                   _initialProps, _originalProps, _config, theme, canvas, plot, title,
                   description, eventHandlers, handlers, leaked, nViews, nTitles,
                   nDescs, destroyed, concreteSet, firstPadding, measured, nUpdates>>

(* lines 279-281: this.paddingComponents.push(components). *)
ResgiterPadding ==
    /\ pc = "idle"
    /\ Len(paddingComponents) < MaxComponents
    /\ \E c \in Components : paddingComponents' = Append(paddingComponents, c)
    /\ op' = "resgiterPadding"
    /\ outcome' = "ok"
    /\ passes' = 0
    /\ trace' = <<>>
    /\ UNCHANGED <<container, pc, depth, arg, cfg, newProps, _initialProps,
                   _originalProps, _config, theme, canvas, plot, title, description,
                   eventHandlers, handlers, leaked, nViews, nTitles, nDescs, destroyed,
                   misuse, concreteSet, firstPadding, measured, nUpdates>>

(* Between two calls the page gives the container another size; the canvas *)
(* controller reads it at the next updateCanvasSize (line 332), so a       *)
(* resize matters only while an updateConfig can still follow.             *)
Resize ==
    /\ pc = "idle"
    /\ nUpdates < MaxUpdates
    /\ container' \in ContainerSizes \ {container}
    /\ UNCHANGED <<pc, op, depth, passes, arg, cfg, newProps, _initialProps,
                   _originalProps, _config, theme, canvas, plot, title, description,
                   eventHandlers, handlers, leaked, nViews, nTitles, nDescs, destroyed,
                   misuse, outcome, trace, concreteSet, firstPadding, measured,
                   nUpdates, paddingComponents>>

----------------------------------------------------------------------------

Next ==
    \/ InitConfig
    \/ InitTitle
    \/ InitDescription
    \/ InitView
    \/ InitEvents
    \/ AfterInit
    \/ AfterInitMeasure
    \/ UpdateConfig
    \/ UMerge
    \/ UUnbind
    \/ UDestroyView
    \/ UDestroyChrome
    \/ UInstall
    \/ Destroy
    \/ DUnbind
    \/ DChrome
    \/ DDetach
    \/ DView
    \/ DFlag
    \/ Render
    \/ ChangeData
    \/ Repaint
    \/ ResgiterPadding
    \/ Resize

Spec == Init /\ [][Next]_vars

(* The constructor alone: _init, _afterInit and its nested updateConfig. *)
NextLayout ==
    \/ InitConfig
    \/ InitTitle
    \/ InitDescription
    \/ InitView
    \/ InitEvents
    \/ AfterInit
    \/ AfterInitMeasure
    \/ UMerge
    \/ UUnbind
    \/ UDestroyView
    \/ UDestroyChrome
    \/ UInstall

SpecLayout == InitLayout /\ [][NextLayout]_vars

(* The constructor alone, over the scales of the variant and the meta. *)
SpecScales == InitScales /\ [][NextLayout]_vars

(* The statements of a running call.  The code is synchronous: a method    *)
(* that was invoked executes its next statement until it returns or throws.*)
Step ==
    \/ InitConfig
    \/ InitTitle
    \/ InitDescription
    \/ InitView
    \/ InitEvents
    \/ AfterInit
    \/ AfterInitMeasure
    \/ UMerge
    \/ UUnbind
    \/ UDestroyView
    \/ UDestroyChrome
    \/ UInstall
    \/ DUnbind
    \/ DChrome
    \/ DDetach
    \/ DView
    \/ DFlag

(* The calls that run statements of their own: the constructor,           *)
(* updateConfig and destroy (render and changeData are single steps that   *)
(* run no _init pass).  A running call keeps executing.                    *)
NextLive == Step \/ UpdateConfig \/ Destroy

SpecLive == Init /\ [][NextLive]_vars /\ WF_vars(Step)

(* The life cycle in its environment: the calls that build and dispose     *)
(* views, the registration of padding components that _afterInit measures, *)
(* and the container size that updateConfig reads.                         *)
NextLifecycle == NextLive \/ ResgiterPadding \/ Resize

SpecLifecycle == Init /\ [][NextLifecycle]_vars

(* The life cycle and the calls that reach into the live view: render,     *)
(* changeData and repaint.                                                 *)
NextView == NextLive \/ Render \/ ChangeData \/ Repaint

SpecView == Init /\ [][NextView]_vars

----------------------------------------------------------------------------
(* Properties *)

IsPrefix(s, t) == Len(s) <= Len(t) /\ SubSeq(t, 1, Len(s)) = s

(* The step machine and the constructor as a function agree. *)
ConstructAgrees ==
    (pc = "idle" /\ op = "construct") =>
        LET c == Construct(_originalProps,
                           [theme EXCEPT !.titleStyled = FALSE, !.descStyled = FALSE,
                                         !.tooltipStyled = FALSE], canvas, <<>>)
        IN  /\ _config = c.config
            /\ theme = c.theme
            /\ plot = c.plot
            /\ title = c.title
            /\ description = c.description

(* C1: at most one drawable view, one title chrome and one description     *)
(* chrome are live in every reachable state, and the previous epoch's view *)
(* and chrome are disposed before _init creates the new ones.              *)
C1_OneLiveEpoch ==
    /\ nViews <= 1
    /\ nTitles <= 1
    /\ nDescs <= 1
    /\ pc \in {"init", "title", "description", "view"} => nViews = 0
    /\ pc \in {"init", "title"} => nTitles = 0
    /\ pc \in {"init", "title", "description"} => nDescs = 0

(* C1 witness: an updateConfig on an auto-padded instance has rebuilt      *)
(* twice and left one live view, title and description.                    *)
C1_Witness ==
    /\ pc = "idle" /\ op = "updateConfig" /\ outcome = "ok"
    /\ passes = 2
    /\ plot.live /\ title.live /\ description.live
    /\ nViews = 1 /\ nTitles = 1 /\ nDescs = 1

(* C2: no handler stays bound on a view this.plot no longer refers to, a   *)
(* view is disposed only after its handlers are unbound, no handler is     *)
(* bound after destroy() returns, and after updateConfig() returns the     *)
(* bound handlers are those the rebuild bound.                             *)
C2_NoLeakedBindings ==
    /\ leaked = {}
    /\ ~plot.live => handlers = {}
    /\ (pc = "idle" /\ op = "destroy" /\ outcome = "ok") => handlers = {}
    /\ (pc = "idle" /\ op = "updateConfig" /\ outcome = "ok") =>
           handlers = Range(HandlerSeq(_initialProps.events, 1))

(* C2 witness: destroy() has returned on an instance that was rebuilt with *)
(* declared handlers, and none is bound.                                   *)
C2_Witness ==
    /\ pc = "idle" /\ op = "destroy" /\ outcome = "ok"
    /\ nUpdates >= 1
    /\ Len(eventHandlers) >= 2
    /\ handlers = {}

(* C3: on an instance constructed with padding "auto", an updateConfig     *)
(* whose partial omits padding merges padding "auto" back, its first _init *)
(* pass resolves "auto", and when it returns the measurement-only render,  *)
(* the measurement and the second rebuild have run.                        *)
C3_OmittedPaddingStaysAuto ==
    (op = "updateConfig" /\ _originalProps.padding.kind = "auto"
                         /\ arg.padding.kind = "none") =>
        /\ (passes = 0 /\ pc \in {"u_unbind", "u_view", "u_chrome", "u_install"})
               => newProps.padding = AutoPad
        /\ passes >= 1 => firstPadding = "auto"
        /\ (pc = "idle" /\ outcome = "ok") =>
               /\ passes = 2
               /\ SelectSeq(trace, LAMBDA e : e \in {"render(false)", "measure", "view.new"})
                      = <<"view.new", "render(false)", "measure", "view.new">>
               /\ _initialProps.padding = Tuple(measured)

(* C3 witness: after an updateConfig that set a concrete padding, an       *)
(* updateConfig that omits padding has run the auto-padding pass again.    *)
C3_Witness ==
    /\ pc = "idle" /\ op = "updateConfig" /\ outcome = "ok"
    /\ _originalProps.padding.kind = "auto"
    /\ concreteSet
    /\ nUpdates = 2
    /\ arg.padding.kind = "none"
    /\ passes = 2
    /\ plot.live /\ plot.padding = measured

ViewSteps ==
    SelectSeq(trace, LAMBDA e : e \in {"view.new", "render(false)", "measure", "plot.destroy"})

AutoOrder(o) ==
    (IF o = "updateConfig" THEN <<"plot.destroy">> ELSE <<>>)
    \o <<"view.new", "render(false)", "measure", "plot.destroy", "view.new">>

(* C4: in a construct or updateConfig call whose padding resolves to       *)
(* "auto", the provisional view is built with [0,0,0,0], then              *)
(* render(false) runs on it, then the padding is measured, then the        *)
(* provisional view is destroyed, and only then the final view is built,   *)
(* with the measured padding.                                              *)
C4_AutoPaddingOrder ==
    (op \in {"construct", "updateConfig"} /\ passes >= 1 /\ firstPadding = "auto") =>
        /\ IsPrefix(ViewSteps, AutoOrder(op))
        /\ (plot.live /\ passes = 1) => plot.padding = Neutral
        /\ pc = "measure" => (plot.live /\ plot.provisional)
        /\ (plot.live /\ passes = 2) =>
               /\ plot.padding = measured
               /\ ~plot.provisional
               /\ nViews = 1
        /\ (pc = "idle" /\ outcome = "ok") =>
               /\ ViewSteps = AutoOrder(op)
               /\ plot.live
               /\ passes = 2

(* C4 witness: a constructor call with padding "auto" has returned with    *)
(* the final view built with a measured padding other than [0,0,0,0].      *)
C4_Witness ==
    /\ pc = "idle" /\ op = "construct" /\ outcome = "ok"
    /\ firstPadding = "auto"
    /\ ViewSteps = AutoOrder("construct")
    /\ plot.live /\ plot.padding = measured /\ measured # Neutral

(* C5: once destroy() has completed, a call to updateConfig, render or     *)
(* changeData fails with an "instance destroyed" error and has no effect   *)
(* on the view, the chrome, the canvas or the bindings.                    *)
C5_DestroyedInstanceRejectsCalls ==
    [][(destroyed /\ pc = "idle" /\ op' \in {"updateConfig", "render", "changeData"}) =>
          /\ pc' = "idle"
          /\ outcome' = "InstanceDestroyed"
          /\ UNCHANGED <<plot, title, description, canvas, handlers, eventHandlers,
                         nViews, nTitles, nDescs, misuse, _initialProps, _config>>]_vars

(* C6: a destroy() on an instance that is already destroyed disposes       *)
(* nothing again: no step of it uses a disposed canvas controller, view,   *)
(* chrome or canvas node.                                                  *)
C6_SecondDestroyGuarded ==
    [][(destroyed /\ op' = "destroy") =>
          /\ misuse' = misuse
          /\ "canvasController.destory" \notin Range(trace')
          /\ UNCHANGED <<plot, title, description, canvas, handlers>>]_vars

(* C7 as stated: for every canvas size and chrome, the view margin's maxY  *)
(* is strictly less than the canvas height and every view has              *)
(* start.y < end.y.                                                        *)
C7_AnyCanvas ==
    /\ pc = "view" => _getViewMargin(title, description, theme, canvas).maxY < canvas.height
    /\ plot.live => plot.startY < plot.endY

(* C7 amended: for every canvas height greater than 0 and every title and  *)
(* description, present or absent, the view margin's maxY is strictly less *)
(* than the canvas height and every view has start.y < end.y.              *)
C7_PositiveCanvas ==
    canvas.height > 0 =>
        /\ pc = "view" =>
               _getViewMargin(title, description, theme, canvas).maxY < canvas.height
        /\ plot.live => (plot.startY < plot.endY /\ plot.endY = canvas.height)

(* C7 witness: a title and a description that reach below the canvas, and  *)
(* a view that starts at the clamped margin.                               *)
C7_Witness ==
    /\ canvas.height > 0
    /\ plot.live /\ title.live /\ description.live
    /\ GetBBox(description).maxY > canvas.height
    /\ plot.startY = canvas.height - Eps

FreshTheme(th) ==
    [th EXCEPT !.titleStyled = FALSE, !.descStyled = FALSE, !.tooltipStyled = FALSE]

(* C8: after construct(c, cfg) and one updateConfig(cfg2) that does not    *)
(* touch padding, the rendering configuration equals the one that          *)
(* construct(c, merge(cfg, cfg2)) assembles.                               *)
C8_RoundTrip ==
    (pc = "idle" /\ op = "updateConfig" /\ outcome = "ok" /\ nUpdates = 1
                 /\ ~destroyed /\ arg.padding.kind = "none"
                 /\ paddingComponents = <<>>) =>
        _config = Construct(DeepMix(_originalProps, arg), FreshTheme(theme), canvas,
                            <<>>).config

(* C9: with a concrete padding [top, right, bottom, left] the panel range  *)
(* has minX = left, minY = top, width = canvasWidth - left - right and     *)
(* height = canvasHeight - top - bottom, positive when the canvas exceeds  *)
(* the padding sums, and it is in place before the title and the           *)
(* description are placed, whose left margin and wrap width derive from it.*)
C9_PanelRange ==
    (pc \in {"title", "description", "view", "events", "afterInit"}
        /\ ResolvedPadding(_initialProps, theme).kind = "tuple") =>
        LET p == ResolvedPadding(_initialProps, theme).v
            r == _config.panelRange
        IN  /\ r.minX = p[4]
            /\ r.minY = p[1]
            /\ r.width = canvas.width - p[4] - p[2]
            /\ r.height = canvas.height - p[1] - p[3]
            /\ canvas.width > p[4] + p[2] => r.width > 0
            /\ canvas.height > p[1] + p[3] => r.height > 0
            /\ pc = "title" => ~title.live
            /\ pc \in {"title", "description"} => ~description.live
            /\ title.live => (title.leftMargin = p[4] /\ title.wrapperWidth = r.width)
            /\ description.live =>
                   (description.leftMargin = p[4] /\ description.wrapperWidth = r.width)

(* C9 witness: the padding [10,20,30,40] on a 400 wide canvas, the title   *)
(* placed at left margin 40 with wrap width 340.                           *)
C9_Witness ==
    /\ pc = "afterInit"
    /\ _initialProps.padding = Tuple(<<10, 20, 30, 40>>)
    /\ canvas.width = 400 /\ canvas.height = 300
    /\ _config.panelRange = BBox(40, 10, 340, 260)
    /\ title.live /\ title.leftMargin = 40 /\ title.wrapperWidth = 340

TipOff(props) == props.tooltip.present /\ props.tooltip.visible = "false"
LegendOff(props) == props.legend.present /\ props.legend.visible = "false"

(* C10: with tooltip.visible false (legend.visible false) the tooltip      *)
(* (legends) section is false when the view is constructed and stays       *)
(* false, and no step of the pass merges tooltip.style into the theme.     *)
C10_DisabledSections ==
    /\ [](plot.live =>
            /\ TipOff(_initialProps) =>
                   (plot.options.tooltip = False /\ _config.tooltip = False)
            /\ LegendOff(_initialProps) =>
                   (plot.options.legends = False /\ _config.legends = False))
    /\ [][(TipOff(_initialProps)
             /\ pc \in {"init", "title", "description", "view", "events",
                        "afterInit", "measure"})
          => theme'.tooltipStyled = theme.tooltipStyled]_vars

(* C10 witness: a view was just constructed from a configuration with      *)
(* tooltip {visible: false, style} and legend {visible: false}.            *)
C10_Witness ==
    /\ pc = "events"
    /\ TipOff(_initialProps) /\ _initialProps.tooltip.styled
    /\ LegendOff(_initialProps)
    /\ plot.live
    /\ plot.options.tooltip = False /\ plot.options.legends = False
    /\ ~theme.tooltipStyled

(* _.isEmpty(data) *)
isEmpty(data) == data \in {"empty", "undefined"}

(* C11: render() runs a full draw pass of the live view exactly when the   *)
(* working configuration's data is not empty and does nothing otherwise;   *)
(* changeData(d) replaces the data bound to the live view and leaves the   *)
(* working configuration, the rendering configuration, the rest of the     *)
(* view, the chrome and the handler records as they were.                  *)
C11_RenderAndChangeData ==
    [][/\ (pc = "idle" /\ op' = "render") =>
             /\ ("plot.render" \in Range(trace')) <=> ~isEmpty(_initialProps.data)
             /\ (plot.live /\ ~isEmpty(_initialProps.data)) =>
                    plot' = [plot EXCEPT !.drawn = TRUE]
             /\ isEmpty(_initialProps.data) => plot' = plot
             /\ UNCHANGED <<_initialProps, _config, theme, title, description,
                            eventHandlers, handlers, canvas, nViews>>
       /\ (pc = "idle" /\ op' = "changeData") =>
             /\ plot.live => (\E d \in DataSets : plot' = [plot EXCEPT !.data = d])
             /\ trace' = <<"plot.changeData">>
             /\ UNCHANGED <<_initialProps, _originalProps, _config, theme, title,
                            description, eventHandlers, handlers, canvas, nViews,
                            nTitles, nDescs>>]_vars

(* C11 witness: the view was drawn by render() and then given new data by  *)
(* changeData, while the working configuration still holds the old data.   *)
C11_Witness ==
    /\ pc = "idle" /\ op = "changeData"
    /\ plot.live /\ plot.drawn
    /\ plot.data = "d2" /\ _initialProps.data = "d1"

(* C12: eventHandlers is empty when _events starts to bind in an           *)
(* updateConfig and when destroy() has completed, and between calls it     *)
(* holds exactly one record per handler bound on the live view.            *)
C12_RecordsOfCurrentEpoch ==
    /\ (pc = "events" /\ op = "updateConfig") => eventHandlers = <<>>
    /\ destroyed => eventHandlers = <<>>
    /\ (pc = "idle" /\ outcome = "ok" /\ plot.live) =>
           /\ Range(eventHandlers) = handlers
           /\ Len(eventHandlers) = Cardinality(handlers)

Teardown == {"u_merge", "u_unbind", "u_view", "u_chrome", "u_install"}

(* C13: a construct or an updateConfig call re-enters _init at most once:  *)
(* the updateConfig nested in _afterInit carries the measured tuple, is    *)
(* not forced back to "auto", and its _afterInit finds a concrete padding; *)
(* so a call makes at most two _init passes, and every call that was       *)
(* invoked ends (it returns, or _description throws its TypeError).        *)
C13_CallsComplete ==
    /\ [](/\ passes <= 2
          /\ pc = "measure" => passes = 1
          /\ (passes = 1 /\ pc \in Teardown) => cfg.padding = Tuple(measured)
          /\ (passes = 1 /\ pc \in Teardown \ {"u_merge"}) =>
                 newProps.padding = Tuple(measured)
          /\ (passes = 2 /\ pc = "afterInit") =>
                 ResolvedPadding(_initialProps, theme).kind = "tuple"
          /\ (pc = "idle" /\ outcome = "ok" /\ op \in {"construct", "updateConfig"}) =>
                 /\ passes \in {1, 2}
                 /\ passes = 2 <=> firstPadding = "auto")
    /\ (outcome = "running") ~> (outcome \in {"ok", "TypeError"} /\ pc \in {"idle", "failed"})

(* C13 witness: on an instance whose original padding is "auto", the       *)
(* updateConfig nested in _afterInit has merged the measured tuple and was *)
(* not forced back to "auto".                                              *)
C13_Witness ==
    /\ op = "updateConfig" /\ pc = "u_unbind" /\ passes = 1 /\ depth = 2
    /\ _originalProps.padding.kind = "auto"
    /\ cfg.padding = Tuple(measured)
    /\ newProps.padding = Tuple(measured)

(* C14: no step of construct or updateConfig changes the contents of the   *)
(* theme, whatever styles the configuration supplies.                      *)
C14_ThemeNeverMutated ==
    [][theme' = theme]_vars

(* C15 as stated: in the configuration handed to the view, a field with a  *)
(* scale entry and a meta entry has, under every key present in the meta   *)
(* entry, the value of meta.                                               *)
C15_MetaWins ==
    plot.live =>
        \A field \in DOMAIN plot.options.scales.v :
            field \in DOMAIN _initialProps.meta =>
                \A k \in DOMAIN _initialProps.meta[field] :
                    Get(plot.options.scales.v[field], k) = _initialProps.meta[field][k]

(* C15 amended: the scales handed to the view have the fields the hook     *)
(* wrote; a field with a meta entry has the value of meta under every key  *)
(* whose value in meta is not undefined, and the hook's value under every  *)
(* other key; a field without a meta entry has the hook's entry.           *)
C15_DefinedMetaWins ==
    plot.live =>
        LET scales == plot.options.scales.v
            hook == _initialProps.variantScales
            meta == _initialProps.meta
        IN  /\ DOMAIN scales = DOMAIN hook
            /\ \A field \in DOMAIN scales :
                   IF field \in DOMAIN meta
                   THEN \A k \in ScaleKeys :
                           Get(scales[field], k) =
                               IF Get(meta[field], k) # "undefined"
                               THEN meta[field][k] ELSE Get(hook[field], k)
                   ELSE scales[field] = hook[field]

(* C15 witness: the hook set alias and min of x, meta gives x an alias and *)
(* an undefined min; the view got the alias of meta and the min of the     *)
(* hook, and the entry of y as the hook wrote it.                          *)
C15_Witness ==
    /\ plot.live
    /\ _initialProps.variantScales = [f \in Fields |-> [k \in ScaleKeys |-> "h"]]
    /\ DOMAIN _initialProps.meta = {"x"}
    /\ _initialProps.meta["x"] = [k \in ScaleKeys |-> IF k = "alias" THEN "m" ELSE "undefined"]
    /\ plot.options.scales.v["x"] = [k \in ScaleKeys |-> IF k = "alias" THEN "m" ELSE "h"]
    /\ plot.options.scales.v["y"] = [k \in ScaleKeys |-> "h"]

(* C16: once _description has run for a configuration with a description,  *)
(* the call has not failed and the description chrome exists, its top      *)
(* margin being the theme's description top margin plus the title's bottom *)
(* edge when there is a title, and the theme's margin alone when not.      *)
C16_DescriptionPlaced ==
    (/\ _initialProps.description.present
     /\ op \in {"construct", "updateConfig"}
     /\ pc \in {"view", "events", "afterInit", "measure", "idle", "failed"}) =>
        /\ outcome # "TypeError"
        /\ description.set
        /\ description.topMargin =
               theme.descTop + (IF title.set THEN GetBBox(title).minY + GetBBox(title).height
                                ELSE 0)

(* C17: after every _init pass the title slot is set exactly when the      *)
(* working configuration has a title, and likewise the description slot;   *)
(* a slot that is set holds a live chrome, a cleared slot leaves no live   *)
(* chrome behind, and with both slots cleared the view margin is the zero  *)
(* box, so the view starts at y = 0.                                       *)
C17_SlotsFollowConfig ==
    (\/ pc \in {"view", "events", "afterInit", "measure"}
     \/ (pc = "idle" /\ outcome = "ok" /\ op \in {"construct", "updateConfig"})) =>
        /\ title.set <=> _initialProps.title.present
        /\ description.set <=> _initialProps.description.present
        /\ title.set => title.live
        /\ description.set => description.live
        /\ ~title.set => nTitles = 0
        /\ ~description.set => nDescs = 0
        /\ (~title.set /\ ~description.set) =>
               /\ _getViewMargin(title, description, theme, canvas)
                      = [minX |-> 0, maxX |-> 0, minY |-> 0, maxY |-> 0]
               /\ (pc # "view" => plot.startY = 0)

(* C17 witness: an instance constructed with a title went through an       *)
(* updateConfig({title: null}); the slot is cleared, no title chrome is    *)
(* live, and the new view starts at y = 0.                                 *)
C17_Witness ==
    /\ pc = "idle" /\ op = "updateConfig" /\ outcome = "ok"
    /\ _originalProps.title.present
    /\ arg.title.op = "null"
    /\ ~_initialProps.title.present
    /\ ~title.set /\ nTitles = 0
    /\ plot.live /\ plot.startY = 0

DestroyOrder == <<"canvasController.destory", "off", "title.destory",
                  "description.destory", "removeChild", "plot.destroy">>

(* C18: destroy() disposes the canvas controller, unbinds the handlers,    *)
(* disposes the title and the description, detaches the canvas node and    *)
(* disposes the view, in this order, and sets destroyed last; and in every *)
(* reachable state with destroyed = true the canvas controller, the        *)
(* chrome, the canvas attachment and the view are disposed and no handler  *)
(* is bound.                                                               *)
C18_DestroyedMeansDisposed ==
    /\ op = "destroy" =>
           /\ trace = SelectSeq(DestroyOrder, LAMBDA e : e \in Range(trace))
           /\ pc = "d_flag" => trace[Len(trace)] = "plot.destroy"
    /\ destroyed =>
           /\ ~canvas.live /\ ~canvas.attached
           /\ ~plot.live /\ nViews = 0
           /\ ~title.live /\ ~description.live /\ nTitles = 0 /\ nDescs = 0
           /\ handlers = {}

(* C19: when destroy() has ended, by returning or by a step that threw,    *)
(* every disposal step was attempted: the view's destroy was called, and   *)
(* no view, chrome, binding or canvas attachment is left.                  *)
C19_CleanupIsExhaustive ==
    (op = "destroy" /\ pc = "idle") =>
        /\ "plot.destroy" \in Range(trace)
        /\ ~plot.live
        /\ ~title.live /\ ~description.live
        /\ handlers = {}
        /\ ~canvas.attached

(* C20: when construct or an external updateConfig has returned normally,  *)
(* the working configuration's padding is not "auto" (an auto pass has     *)
(* replaced it by the measured tuple, whether "auto" came from the         *)
(* configuration or from the theme), and the live view was built with the  *)
(* concrete padding in force, not with the [0,0,0,0] that stands in for    *)
(* "auto".                                                                 *)
C20_ConcretePaddingAtReturn ==
    (pc = "idle" /\ outcome = "ok" /\ op \in {"construct", "updateConfig"}) =>
        /\ _initialProps.padding.kind # "auto"
        /\ (IF _initialProps.padding.kind = "tuple" THEN _initialProps.padding
                                                    ELSE theme.padding).kind = "tuple"
        /\ plot.live /\ ~plot.provisional
        /\ plot.padding = (IF _initialProps.padding.kind = "tuple"
                           THEN _initialProps.padding ELSE theme.padding).v
        /\ firstPadding = "auto" =>
               /\ _initialProps.padding = Tuple(measured)
               /\ plot.padding = measured
               /\ measured # Neutral

(* C20 witness: the configuration has no padding and the theme's padding   *)
(* is "auto"; the constructor has returned with the measured tuple as the  *)
(* working padding and a view built with it.                               *)
C20_Witness ==
    /\ pc = "idle" /\ op = "construct" /\ outcome = "ok"
    /\ _originalProps.padding.kind = "none"
    /\ theme.padding.kind = "auto"
    /\ _initialProps.padding = Tuple(measured)
    /\ plot.live /\ plot.padding = measured

====
